---- MODULE Spec2Model ----
(***************************************************************************)
(* triq: trio guest mode inside a Qt event loop (src/triq/triq.py).        *)
(*                                                                         *)
(* The model follows the module-level inbox (a trio memory channel), the   *)
(* producer calls call_async() and exit(), the coordination coroutine      *)
(* _main() with its nursery, the done callback _done(), and the task       *)
(* bodies used by the test-suite (a sleeping worker, channel senders and   *)
(* a channel receiver) plus a task body that raises.  One action is one    *)
(* host-thread callback or one scheduler step of one task: a task runs     *)
(* from one trio checkpoint to the next.                                   *)
(***************************************************************************)
EXTENDS Naturals, Sequences, FiniteSets

\* ---- bounds of the model ------------------------------------------------
\* _MAX_CONCURRENT_TASKS of triq.py:30 is 100; the model scales it down.
Capacity == 2
\* requests accepted by call_async() over a behaviour
MaxTasks == 2
\* callbacks passed to _schedule over a behaviour
MaxCallbacks == 3
\* native events the host loop gets over a behaviour
MaxNative == 2

\* ---- program constants --------------------------------------------------
\* trio.open_memory_channel(2) of the test
ChanCap == 2
\* task3 receives twice
RecvCount == 2

EXIT == 0
NoItem == MaxTasks + 1
Tasks == 1..MaxTasks
Kinds == {"sleep", "fail", "send", "recv"}

\* the host's own events and the wake-up of exec_() in the loop's ready queue
NATIVE == 0
WAKE == MaxCallbacks + 1
Callbacks == 1..MaxCallbacks
\* what a callback passed to _schedule does: a guest tick, the last tick whose
\* _done calls app.quit(), the last tick whose _done re-raises
CallbackKinds == {"tick", "quit", "raise"}
\* the threads that call _schedule: the host thread and trio's I/O thread
PostThreads == {"host", "io"}
\* producer threads other than the host thread
Producers == {"p1", "p2"}

VARIABLES
    inbox,      \* buffer of the module-level memory channel: task ids and EXIT
    mainPc,     \* where _main is: none, start, recv_wait, got, aborted, joining, exited, stopped
    mainItem,   \* the item _main was rescheduled with (NoItem: none)
    cancel,     \* the nursery's cancel scope: none, or what cancelled it first
                \* (close: lastWindowClosed while _main loops, close_late: while it
                \* joins, failure: a child's exception)
    nurseryErr, \* the nursery holds a child's exception
    quitCalled, \* app.quit() was called by _done in this run
    nsub,       \* requests accepted so far (the last id given out)
    kind,       \* the task body of each request
    st,         \* the state of each request / child task
    need,       \* receives a receiver task still has to make
    spawned,    \* the ids handed to nursery.start_soon, in order
    chan,       \* buffer of the test's memory channel (sender ids)
    sendq,      \* tasks parked in send()
    recvq,      \* tasks parked in receive()
    lastCall,   \* the latest producer call and how it ended: op, res
    late,       \* the requests accepted while the scope of a run was cancelled
                \* and not spawned so far
    \* the re-entry bridge and the host loop (MockApp)
    ready,      \* the loop's queue of handles: callback ids, NATIVE, WAKE
    loopState,  \* idle (before exec_), running, closed
    appQueue,   \* MockApp.queue: what exec_() waits for
    nposted,    \* callbacks posted so far (the last id given out)
    cbKind,     \* what each posted callback does
    cbAt,       \* the state of the loop when each callback was queued
    nnative,    \* native events so far
    execLog,    \* the handles executed, in order, with the executing thread
    postPc,     \* per thread: the postEvent call it is in the middle of
    postRes,    \* per thread: how its latest postEvent ended
    \* producer threads
    tpc,        \* per producer: the send_nowait call it is in the middle of
    tres,       \* per request id: how the call of a producer thread ended
    owner       \* per request id: the producer thread that submitted it

bridgeVars == <<ready, loopState, appQueue, nposted, cbKind, cbAt, nnative,
                execLog, postPc, postRes>>
threadVars == <<tpc, tres, owner>>
\* what the guest run itself never touches
hostVars == <<bridgeVars, threadVars>>

guestVars == <<inbox, mainPc, mainItem, cancel, nurseryErr, quitCalled, nsub,
               kind, st, need, spawned, chan, sendq, recvq, lastCall, late>>

vars == <<inbox, mainPc, mainItem, cancel, nurseryErr, quitCalled, nsub,
          kind, st, need, spawned, chan, sendq, recvq, lastCall, late,
          hostVars>>

channelVars == <<chan, sendq, recvq, need>>
runVars == <<cancel, nurseryErr, quitCalled>>

Parked == {"sleeping", "sendwait", "recvwait"}
Runnable == {"started", "ready", "cancelpending"}
Live == Parked \cup Runnable
Finished == {"done", "failed", "cancelled"}

cancel_called == cancel # "none"

\* the nursery of the current run is open (between __aenter__ and the end of __aexit__)
NurseryOpen == mainPc \in {"recv_wait", "got", "aborted", "joining"}

\* shutdown of the current run has begun, or no run is consuming
ShutdownBegun == cancel_called \/ mainPc \in {"joining", "exited", "stopped"}

SeqSet(s) == {s[i] : i \in DOMAIN s}

\* an exit sentinel is ahead of anything enqueued now
SentinelAhead == EXIT \in SeqSet(inbox) \/ (mainPc = "got" /\ mainItem = EXIT)

Init ==
    /\ inbox = <<>>
    /\ mainPc = "none"
    /\ mainItem = NoItem
    /\ cancel = "none"
    /\ nurseryErr = FALSE
    /\ quitCalled = FALSE
    /\ nsub = 0
    /\ kind = [t \in Tasks |-> "none"]
    /\ st = [t \in Tasks |-> "unsubmitted"]
    /\ need = [t \in Tasks |-> 0]
    /\ spawned = <<>>
    /\ chan = <<>>
    /\ sendq = <<>>
    /\ recvq = <<>>
    /\ lastCall = [op |-> "none", res |-> "none"]
    /\ late = {}
    /\ ready = <<>>
    /\ loopState = "idle"
    /\ appQueue = <<>>
    /\ nposted = 0
    /\ cbKind = [c \in Callbacks |-> "none"]
    /\ cbAt = [c \in Callbacks |-> "none"]
    /\ nnative = 0
    /\ execLog = <<>>
    /\ postPc = [th \in PostThreads |-> "idle"]
    /\ postRes = [th \in PostThreads |-> "none"]
    /\ tpc = [p \in Producers |-> [branch |-> "idle", item |-> NoItem]]
    /\ tres = [t \in Tasks |-> "none"]
    /\ owner = [t \in Tasks |-> "none"]

\* a variant of send_nowait whose buffer takes a new item at the front
send_nowait_front(v) ==
    IF mainPc = "recv_wait"
    THEN [res |-> "ok", buf |-> inbox, pc |-> "got", item |-> v]
    ELSE IF Len(inbox) < Capacity
    THEN [res |-> "ok", buf |-> <<v>> \o inbox, pc |-> mainPc, item |-> mainItem]
    ELSE [res |-> "WouldBlock", buf |-> inbox, pc |-> mainPc, item |-> mainItem]

\* a variant of send_nowait whose capacity test is off by one
send_nowait_offbyone(v) ==
    IF mainPc = "recv_wait"
    THEN [res |-> "ok", buf |-> inbox, pc |-> "got", item |-> v]
    ELSE IF Len(inbox) <= Capacity
    THEN [res |-> "ok", buf |-> Append(inbox, v), pc |-> mainPc, item |-> mainItem]
    ELSE [res |-> "WouldBlock", buf |-> inbox, pc |-> mainPc, item |-> mainItem]

\* a variant of send_nowait on a channel that is closed once shutdown has begun
send_nowait_closed(v) ==
    IF cancel # "none" \/ mainPc \in {"joining", "exited", "stopped"}
    THEN [res |-> "LateSubmission", buf |-> inbox, pc |-> mainPc, item |-> mainItem]
    ELSE IF mainPc = "recv_wait"
    THEN [res |-> "ok", buf |-> inbox, pc |-> "got", item |-> v]
    ELSE IF Len(inbox) < Capacity
    THEN [res |-> "ok", buf |-> Append(inbox, v), pc |-> mainPc, item |-> mainItem]
    ELSE [res |-> "WouldBlock", buf |-> inbox, pc |-> mainPc, item |-> mainItem]

\* ---- the inbox: trio memory channel, send side --------------------------
\* MemorySendChannel.send_nowait(v): a parked receiver gets the value
\* directly, else the buffer takes it if it has room, else WouldBlock.
send_nowait(v) ==
    IF mainPc = "recv_wait"
    THEN [res |-> "ok", buf |-> inbox, pc |-> "got", item |-> v]
    ELSE IF Len(inbox) < Capacity
    THEN [res |-> "ok", buf |-> Append(inbox, v), pc |-> mainPc, item |-> mainItem]
    ELSE [res |-> "WouldBlock", buf |-> inbox, pc |-> mainPc, item |-> mainItem]

\* call_async(fn, *av): send_nowait((fn, av)).  The model accepts at most
\* MaxTasks requests; a call that raises WouldBlock is always possible.
call_async(k) ==
    /\ nsub < MaxTasks \/ send_nowait(nsub + 1).res # "ok"
    /\ LET id == nsub + 1
           r == send_nowait(id)
       IN /\ inbox' = r.buf
          /\ mainPc' = r.pc
          /\ mainItem' = r.item
          /\ lastCall' = [op |-> "call_async", res |-> r.res]
          /\ IF r.res = "ok"
             THEN /\ nsub' = id
                  /\ kind' = [kind EXCEPT ![id] = k]
                  /\ st' = [st EXCEPT ![id] = IF SentinelAhead THEN "held" ELSE "queued"]
                  /\ late' = IF cancel_called THEN late \cup {id} ELSE late
             ELSE UNCHANGED <<nsub, kind, st, late>>
    /\ UNCHANGED <<runVars, spawned, channelVars, hostVars>>

exit ==
    /\ LET r == send_nowait(EXIT)
       IN /\ inbox' = r.buf
          /\ mainPc' = r.pc
          /\ mainItem' = r.item
          /\ lastCall' = [op |-> "exit", res |-> r.res]
    /\ UNCHANGED <<runVars, nsub, kind, st, spawned, channelVars, late, hostVars>>

\* ---- run(app) ------------------------------------------------------------
run ==
    /\ mainPc \in {"none", "stopped"}
    /\ mainPc' = "start"
    /\ cancel' = "none"
    /\ nurseryErr' = FALSE
    /\ quitCalled' = FALSE
    /\ UNCHANGED <<inbox, mainItem, nsub, kind, st, spawned, channelVars,
                   lastCall, late, hostVars>>

\* ---- the nursery's cancel scope ------------------------------------------
\* cancel_scope.cancel(): every task parked at a checkpoint is aborted and
\* rescheduled with Cancelled; a task that is runnable sees the cancellation
\* at its next checkpoint.  _main parked in receive() is aborted the same
\* way; parked in the nursery's __aexit__ it keeps waiting for the children.
AbortParked(s) ==
    [t \in Tasks |-> IF s[t] \in Parked THEN "cancelpending" ELSE s[t]]

cancel_scope_cancel(cause, s) ==
    /\ cancel' = IF cancel_called THEN cancel ELSE cause
    /\ st' = AbortParked(s)
    /\ sendq' = <<>>
    /\ recvq' = <<>>
    /\ mainPc' = IF mainPc = "recv_wait" THEN "aborted" ELSE mainPc

\* app.lastWindowClosed, connected to nursery.cancel_scope.cancel by _main
lastWindowClosed ==
    /\ NurseryOpen
    /\ cancel_scope_cancel(IF mainPc \in {"recv_wait", "got"} THEN "close" ELSE "close_late", st)
    /\ UNCHANGED <<inbox, mainItem, nurseryErr, quitCalled, nsub, kind, need,
                   spawned, chan, lastCall, late, hostVars>>

\* ---- _main ---------------------------------------------------------------
\* _receive_channel.receive() as `async for` calls it: Cancelled if the scope
\* is cancelled, else the head of the buffer, else park.
main_receive(buf) ==
    IF cancel_called
    THEN [pc |-> "joining", buf |-> buf, item |-> NoItem]
    ELSE IF buf # <<>>
    THEN [pc |-> "got", buf |-> Tail(buf), item |-> Head(buf)]
    ELSE [pc |-> "recv_wait", buf |-> buf, item |-> NoItem]

\* nursery.start_soon(run_task, fn, *av)
start_soon(id) ==
    /\ st' = [st EXCEPT ![id] = "started"]
    /\ need' = [need EXCEPT ![id] = IF kind[id] = "recv" THEN RecvCount ELSE 0]
    /\ spawned' = Append(spawned, id)
    /\ late' = late \ {id}

\* a variant of main_break that cancels the nursery's scope when it leaves the loop
main_break_cancels ==
    /\ mainPc' = "joining"
    /\ mainItem' = NoItem
    /\ cancel' = IF cancel_called THEN cancel ELSE "exit"
    /\ st' = AbortParked(st)
    /\ sendq' = <<>>
    /\ recvq' = <<>>
    /\ UNCHANGED <<inbox, need, spawned, late>>

\* a variant of main_break that empties the inbox when it leaves the loop
main_break_drains ==
    /\ mainPc' = "joining"
    /\ mainItem' = NoItem
    /\ inbox' = <<>>
    /\ UNCHANGED <<st, need, spawned, cancel, sendq, recvq, late>>

\* `break` on the sentinel (or Cancelled out of receive()): _main leaves the
\* loop for the nursery's __aexit__; the children are left as they are
main_break ==
    /\ mainPc' = "joining"
    /\ mainItem' = NoItem
    /\ UNCHANGED <<inbox, st, need, spawned, cancel, sendq, recvq, late>>

\* a variant of main_spawn that awaits each task before taking the next request
main_spawn_serial ==
    LET r == main_receive(inbox)
    IN /\ \A t \in Tasks : st[t] \notin Live
       /\ mainPc' = r.pc
       /\ inbox' = r.buf
       /\ mainItem' = r.item
       /\ IF mainPc = "got"
          THEN start_soon(mainItem)
          ELSE UNCHANGED <<st, need, spawned, late>>
       /\ UNCHANGED <<cancel, sendq, recvq>>

\* the loop body for a request, and the next receive()
main_spawn ==
    LET r == main_receive(inbox)
    IN /\ mainPc' = r.pc
       /\ inbox' = r.buf
       /\ mainItem' = r.item
       /\ IF mainPc = "got"
          THEN start_soon(mainItem)
          ELSE UNCHANGED <<st, need, spawned, late>>
       /\ UNCHANGED <<cancel, sendq, recvq>>

\* one scheduler step of _main: up to the next checkpoint
_main ==
    /\ mainPc \in {"start", "got", "aborted"}
    /\ IF mainPc = "aborted" \/ (mainPc = "got" /\ mainItem = EXIT)
       THEN main_break
       ELSE main_spawn
    /\ UNCHANGED <<nurseryErr, quitCalled, nsub, kind, chan, lastCall, hostVars>>

\* a variant of nursery_aexit that does not wait for the children
nursery_aexit_nowait ==
    /\ mainPc = "joining"
    /\ mainPc' = "exited"
    /\ UNCHANGED <<inbox, mainItem, runVars, nsub, kind, st, need, spawned,
                   chan, sendq, recvq, lastCall, late, hostVars>>

\* the nursery's __aexit__ returns once no child is left; _main ends
nursery_aexit ==
    /\ mainPc = "joining"
    /\ \A t \in Tasks : st[t] \notin Live
    /\ mainPc' = "exited"
    /\ UNCHANGED <<inbox, mainItem, runVars, nsub, kind, st, need, spawned,
                   chan, sendq, recvq, lastCall, late, hostVars>>

\* a variant of _done that runs as soon as _main has left its loop
_done_eager ==
    /\ mainPc \in {"joining", "exited"}
    /\ mainPc' = "stopped"
    /\ quitCalled' = ~nurseryErr
    /\ UNCHANGED <<inbox, mainItem, cancel, nurseryErr, nsub, kind, st, need,
                   spawned, chan, sendq, recvq, lastCall, late, hostVars>>

\* _done(trio_main_outcome): unwrap() re-raises the nursery's exception, and
\* then app.quit() is not reached
_done ==
    /\ mainPc = "exited"
    /\ mainPc' = "stopped"
    /\ quitCalled' = ~nurseryErr
    /\ UNCHANGED <<inbox, mainItem, cancel, nurseryErr, nsub, kind, st, need,
                   spawned, chan, sendq, recvq, lastCall, late, hostVars>>

\* ---- task bodies ---------------------------------------------------------
\* a task that ends: normally, with Cancelled, or with an exception that
\* run_task re-raises into the nursery, which cancels the scope
TaskFrame == <<inbox, mainItem, quitCalled, nsub, kind, spawned, lastCall,
               late, hostVars>>

\* a variant of run_task that hands the exception to the handler and returns
run_task_handles(t) ==
    /\ kind[t] = "fail"
    /\ st[t] \in Runnable
    /\ st' = [st EXCEPT ![t] = IF st[t] = "cancelpending" THEN "cancelled" ELSE "failed"]
    /\ UNCHANGED <<cancel, nurseryErr, sendq, recvq, mainPc>>
    /\ UNCHANGED <<TaskFrame, need, chan>>

\* run_task(fn) where fn raises before its first checkpoint
run_task_raises(t) ==
    /\ kind[t] = "fail"
    /\ st[t] \in Runnable
    /\ IF st[t] = "cancelpending"
       THEN /\ st' = [st EXCEPT ![t] = "cancelled"]
            /\ UNCHANGED <<cancel, nurseryErr, sendq, recvq, mainPc>>
       ELSE /\ nurseryErr' = TRUE
            /\ cancel_scope_cancel("failure", [st EXCEPT ![t] = "failed"])
    /\ UNCHANGED <<TaskFrame, need, chan>>

\* worker(): await trio.sleep(5); report
worker(t) ==
    /\ kind[t] = "sleep"
    /\ st[t] \in Runnable
    /\ st' = [st EXCEPT ![t] =
                IF st[t] = "ready" THEN "done"
                ELSE IF st[t] = "cancelpending" \/ cancel_called THEN "cancelled"
                ELSE "sleeping"]
    /\ UNCHANGED <<TaskFrame, mainPc, cancel, nurseryErr, channelVars>>

\* the deadline of trio.sleep() passes
timer(t) ==
    /\ st[t] = "sleeping"
    /\ st' = [st EXCEPT ![t] = "ready"]
    /\ UNCHANGED <<TaskFrame, mainPc, cancel, nurseryErr, channelVars>>

\* task1 / task2: await send_channel.send(v)
sender(t) ==
    /\ kind[t] = "send"
    /\ st[t] \in Runnable
    /\ IF st[t] = "ready"
       THEN /\ st' = [st EXCEPT ![t] = "done"]
            /\ UNCHANGED <<chan, sendq, recvq>>
       ELSE IF st[t] = "cancelpending" \/ cancel_called
       THEN /\ st' = [st EXCEPT ![t] = "cancelled"]
            /\ UNCHANGED <<chan, sendq, recvq>>
       ELSE IF recvq # <<>>
       THEN /\ st' = [st EXCEPT ![t] = "ready", ![Head(recvq)] = "ready"]
            /\ recvq' = Tail(recvq)
            /\ UNCHANGED <<chan, sendq>>
       ELSE IF Len(chan) < ChanCap
       THEN /\ st' = [st EXCEPT ![t] = "ready"]
            /\ chan' = Append(chan, t)
            /\ UNCHANGED <<sendq, recvq>>
       ELSE /\ st' = [st EXCEPT ![t] = "sendwait"]
            /\ sendq' = Append(sendq, t)
            /\ UNCHANGED <<chan, recvq>>
    /\ UNCHANGED <<TaskFrame, mainPc, cancel, nurseryErr, need>>

\* task3: two receive() calls; its count of receives left ends with the task
receiver(t) ==
    /\ kind[t] = "recv"
    /\ st[t] \in Runnable
    /\ LET left == IF st[t] = "ready" THEN need[t] - 1 ELSE need[t]
           data == IF sendq # <<>> THEN Append(chan, Head(sendq)) ELSE chan
       IN IF st[t] = "cancelpending" \/ (left > 0 /\ cancel_called)
          THEN /\ st' = [st EXCEPT ![t] = "cancelled"]
               /\ need' = [need EXCEPT ![t] = 0]
               /\ UNCHANGED <<chan, sendq, recvq>>
          ELSE IF left = 0
          THEN /\ st' = [st EXCEPT ![t] = "done"]
               /\ need' = [need EXCEPT ![t] = 0]
               /\ UNCHANGED <<chan, sendq, recvq>>
          ELSE IF data # <<>>
          THEN /\ chan' = Tail(data)
               /\ sendq' = IF sendq # <<>> THEN Tail(sendq) ELSE sendq
               /\ st' = IF sendq # <<>>
                        THEN [st EXCEPT ![t] = "ready", ![Head(sendq)] = "ready"]
                        ELSE [st EXCEPT ![t] = "ready"]
               /\ need' = [need EXCEPT ![t] = left]
               /\ UNCHANGED recvq
          ELSE /\ st' = [st EXCEPT ![t] = "recvwait"]
               /\ recvq' = Append(recvq, t)
               /\ need' = [need EXCEPT ![t] = left]
               /\ UNCHANGED <<chan, sendq>>
    /\ UNCHANGED <<TaskFrame, mainPc, cancel, nurseryErr>>


\* ---- the re-entry bridge and the host loop --------------------------------
\* The host is MockApp: an asyncio loop whose ready queue holds, in order, the
\* wrappers of the posted ReenterEvents, the host's own events and the
\* wake-up of the queue.get() that exec_() runs the loop for.

\* the host thread is not inside a postEvent call of its own
HostFree == postPc["host"] = "idle"

\* app.exec_(): the loop starts running
exec_ ==
    /\ HostFree
    /\ loopState = "idle"
    /\ loopState' = "running"
    /\ UNCHANGED <<ready, appQueue, nposted, cbKind, cbAt, nnative, execLog,
                   postPc, postRes, guestVars, threadVars>>

\* posts in progress: past the closed-check, not yet queued
Posting == {th \in PostThreads : postPc[th] # "idle"}

\* _schedule(callable_) on thread th: app.postEvent builds the wrapper and
\* calls loop.call_soon_threadsafe, which first raises RuntimeError if the
\* loop is closed
_schedule(th, k) ==
    /\ postPc[th] = "idle"
    /\ nposted + Cardinality(Posting) < MaxCallbacks
    /\ IF loopState = "closed"
       THEN /\ postRes' = [postRes EXCEPT ![th] = "RuntimeError"]
            /\ UNCHANGED postPc
       ELSE /\ postPc' = [postPc EXCEPT ![th] = k]
            /\ postRes' = [postRes EXCEPT ![th] = "none"]
    /\ UNCHANGED <<ready, loopState, appQueue, nposted, cbKind, cbAt, nnative,
                   execLog, guestVars, threadVars>>

\* a variant of call_soon_threadsafe that puts the handle at the front
call_soon_threadsafe_front(th) ==
    /\ postPc[th] # "idle"
    /\ nposted' = nposted + 1
    /\ ready' = <<nposted'>> \o ready
    /\ cbKind' = [cbKind EXCEPT ![nposted'] = postPc[th]]
    /\ cbAt' = [cbAt EXCEPT ![nposted'] = loopState]
    /\ postPc' = [postPc EXCEPT ![th] = "idle"]
    /\ postRes' = [postRes EXCEPT ![th] = "ok"]
    /\ UNCHANGED <<loopState, appQueue, nnative, execLog, guestVars, threadVars>>

\* a variant of call_soon_threadsafe that calls the callback at once, on the
\* calling thread
call_soon_threadsafe_direct(th) ==
    /\ postPc[th] # "idle"
    /\ nposted' = nposted + 1
    /\ execLog' = Append(execLog, [cb |-> nposted', thread |-> th])
    /\ cbKind' = [cbKind EXCEPT ![nposted'] = postPc[th]]
    /\ cbAt' = [cbAt EXCEPT ![nposted'] = loopState]
    /\ postPc' = [postPc EXCEPT ![th] = "idle"]
    /\ postRes' = [postRes EXCEPT ![th] = "ok"]
    /\ UNCHANGED <<ready, loopState, appQueue, nnative, guestVars, threadVars>>

\* the rest of loop.call_soon_threadsafe(wrapper): the handle goes to the end
\* of the ready queue and the call returns
call_soon_threadsafe(th) ==
    /\ postPc[th] # "idle"
    /\ nposted' = nposted + 1
    /\ ready' = Append(ready, nposted')
    /\ cbKind' = [cbKind EXCEPT ![nposted'] = postPc[th]]
    /\ cbAt' = [cbAt EXCEPT ![nposted'] = loopState]
    /\ postPc' = [postPc EXCEPT ![th] = "idle"]
    /\ postRes' = [postRes EXCEPT ![th] = "ok"]
    /\ UNCHANGED <<loopState, appQueue, nnative, execLog, guestVars, threadVars>>

\* an event of the host's own arrives
native_post ==
    /\ loopState # "closed"
    /\ nnative < MaxNative
    /\ nnative' = nnative + 1
    /\ ready' = Append(ready, NATIVE)
    /\ UNCHANGED <<loopState, appQueue, nposted, cbKind, cbAt, execLog, postPc,
                   postRes, guestVars, threadVars>>

\* ReenterEvent.consume() for callback c, as the wrapper runs it: the guest
\* tick; the last tick ends in _done, which calls app.quit() or re-raises,
\* and the wrapper puts the exception into the queue.  The first item put
\* wakes exec_()'s queue.get().
consume(c, rest) ==
    IF cbKind[c] = "tick"
    THEN [queue |-> appQueue, ready |-> rest]
    ELSE [queue |-> Append(appQueue, IF cbKind[c] = "quit" THEN "EXIT" ELSE "err"),
          ready |-> IF appQueue = <<>> THEN Append(rest, WAKE) ELSE rest]

\* a variant of wrapper whose handle stays in the ready queue
wrapper_again ==
    /\ HostFree
    /\ loopState = "running"
    /\ ready # <<>>
    /\ Head(ready) \in Callbacks
    /\ LET c == Head(ready)
           r == consume(c, ready)
       IN /\ execLog' = Append(execLog, [cb |-> c, thread |-> "host"])
          /\ appQueue' = r.queue
          /\ ready' = r.ready
    /\ UNCHANGED <<loopState, nposted, cbKind, cbAt, nnative, postPc, postRes,
                   guestVars, threadVars>>

\* the loop runs the wrapper at the head of its ready queue
wrapper ==
    /\ HostFree
    /\ loopState = "running"
    /\ ready # <<>>
    /\ Head(ready) \in Callbacks
    /\ LET c == Head(ready)
           r == consume(c, Tail(ready))
       IN /\ execLog' = Append(execLog, [cb |-> c, thread |-> "host"])
          /\ appQueue' = r.queue
          /\ ready' = r.ready
    /\ UNCHANGED <<loopState, nposted, cbKind, cbAt, nnative, postPc, postRes,
                   guestVars, threadVars>>

\* the loop handles an event of the host's own
native_event ==
    /\ HostFree
    /\ loopState = "running"
    /\ ready # <<>>
    /\ Head(ready) = NATIVE
    /\ execLog' = Append(execLog, [cb |-> NATIVE, thread |-> "host"])
    /\ ready' = Tail(ready)
    /\ UNCHANGED <<loopState, appQueue, nposted, cbKind, cbAt, nnative, postPc,
                   postRes, guestVars, threadVars>>

\* queue.get() completes: exec_() returns (or raises the exception it got)
\* and closes the loop, which drops the handles still queued
exec_return ==
    /\ HostFree
    /\ loopState = "running"
    /\ ready # <<>>
    /\ Head(ready) = WAKE
    /\ loopState' = "closed"
    /\ ready' = <<>>
    /\ appQueue' = Tail(appQueue)
    /\ UNCHANGED <<nposted, cbKind, cbAt, nnative, execLog, postPc, postRes,
                   guestVars, threadVars>>

BridgeNext ==
    \/ exec_
    \/ \E th \in PostThreads, k \in CallbackKinds : _schedule(th, k)
    \/ \E th \in PostThreads : call_soon_threadsafe(th)
    \/ native_post
    \/ wrapper
    \/ native_event
    \/ exec_return

BridgeSpec == Init /\ [][BridgeNext]_vars

\* ---- producer threads ------------------------------------------------------
\* call_async / exit called on a thread other than the host's, while the host
\* thread runs _main.  send_nowait takes no lock: the thread first tests the
\* channel (a receiver parked? room in the buffer?) and acts on what it saw in
\* a later step.  Waking the receiver needs trio's run context, which only
\* the host thread has: trio.lowlevel.reschedule raises RuntimeError after
\* _main was taken out of the channel's receive_tasks.
ThreadFrame == <<cancel, nurseryErr, quitCalled, spawned, channelVars, late,
                 bridgeVars>>

\* the first half of send_nowait on producer thread p: which branch it takes
thread_call(p, v) ==
    /\ tpc[p].branch = "idle"
    /\ v = "task" => nsub < MaxTasks
    /\ LET id == IF v = "task" THEN nsub + 1 ELSE EXIT
           b == IF mainPc = "recv_wait" THEN "wake"
                ELSE IF Len(inbox) < Capacity THEN "append"
                ELSE "full"
       IN /\ tpc' = [tpc EXCEPT ![p] = [branch |-> b, item |-> id]]
          /\ IF v = "task"
             THEN /\ nsub' = id
                  /\ kind' = [kind EXCEPT ![id] = "sleep"]
                  /\ owner' = [owner EXCEPT ![id] = p]
             ELSE UNCHANGED <<nsub, kind, owner>>
    /\ UNCHANGED <<inbox, mainPc, mainItem, st, lastCall, tres, ThreadFrame>>

\* how the call of producer thread p ends
ThreadResult(p) ==
    IF tpc[p].branch = "full" THEN "WouldBlock"
    ELSE IF tpc[p].branch = "append" THEN "ok"
    ELSE IF inbox # <<>> THEN "AssertionError"
    ELSE IF mainPc # "recv_wait" THEN "KeyError"
    ELSE "RuntimeError"

\* the second half of send_nowait on producer thread p
thread_send_nowait(p) ==
    /\ tpc[p].branch # "idle"
    /\ LET id == tpc[p].item
           res == ThreadResult(p)
       IN /\ inbox' = IF res = "ok" THEN Append(inbox, id) ELSE inbox
          /\ mainPc' = IF res = "RuntimeError" THEN "recv_orphan" ELSE mainPc
          /\ lastCall' = [op |-> IF id = EXIT THEN "exit" ELSE "call_async", res |-> res]
          /\ IF id = EXIT
             THEN UNCHANGED <<st, tres>>
             ELSE /\ tres' = [tres EXCEPT ![id] = res]
                  /\ st' = IF res = "ok"
                           THEN [st EXCEPT ![id] = IF SentinelAhead THEN "held" ELSE "queued"]
                           ELSE st
    /\ tpc' = [tpc EXCEPT ![p] = [branch |-> "idle", item |-> NoItem]]
    /\ UNCHANGED <<mainItem, nsub, kind, owner, ThreadFrame>>

ThreadNext ==
    \/ \E p \in Producers, v \in {"task", "exit"} : thread_call(p, v)
    \/ \E p \in Producers : thread_send_nowait(p)
    \/ run
    \/ _main
    \/ nursery_aexit
    \/ _done
    \/ \E t \in Tasks : worker(t)
    \/ \E t \in Tasks : timer(t)

ThreadSpec == Init /\ [][ThreadNext]_vars

Next ==
    \/ \E k \in Kinds : call_async(k)
    \/ exit
    \/ run
    \/ lastWindowClosed
    \/ _main
    \/ nursery_aexit
    \/ _done
    \/ \E t \in Tasks : run_task_raises(t)
    \/ \E t \in Tasks : worker(t)
    \/ \E t \in Tasks : timer(t)
    \/ \E t \in Tasks : sender(t)
    \/ \E t \in Tasks : receiver(t)

Spec == Init /\ [][Next]_vars

\* The host loop dispatches every posted re-entry event and trio runs every
\* runnable task and every expired timer; the producers (call_async, exit,
\* run, lastWindowClosed) are under no obligation.
Fairness ==
    /\ WF_vars(_main)
    /\ WF_vars(nursery_aexit)
    /\ WF_vars(_done)
    /\ \A t \in Tasks :
          /\ WF_vars(run_task_raises(t))
          /\ WF_vars(worker(t))
          /\ WF_vars(timer(t))
          /\ WF_vars(sender(t))
          /\ WF_vars(receiver(t))

FairSpec == Spec /\ Fairness

\* ---- properties -----------------------------------------------------------
NoDup(s) == \A i, j \in DOMAIN s : i # j => s[i] # s[j]
Count(S) == Cardinality(S)
CancelStates == {"cancelpending", "cancelled"}

\* ---- C1 -------------------------------------------------------------------
\* C1 as stated: when app.quit() has been called, every request that was
\* spawned has run to completion (status done).
C1_Original ==
    quitCalled => \A i \in DOMAIN spawned : st[spawned[i]] = "done"

\* C1, amended: every request accepted with no sentinel ahead of it has been
\* spawned by the time _main holds that sentinel; no request is spawned twice;
\* a task is cancelled only when lastWindowClosed or a raising task cancelled
\* the scope (consuming the sentinel cancels nothing), and a task that raises
\* cancels it; and app.quit() is called only when no spawned task is still
\* live.  So when app.quit() is called in a run whose scope was not cancelled,
\* every task of that run has completed.
C1_Step ==
    /\ \A t \in Tasks :
          (st[t] \notin CancelStates /\ st'[t] \in CancelStates)
              => cancel' \in {"close", "close_late", "failure"}
    /\ \A t \in Tasks :
          (st[t] # "failed" /\ st'[t] = "failed") => cancel' # "none"
    /\ (mainPc' = "got" /\ mainItem' = EXIT) => \A t \in Tasks : st'[t] # "queued"
    /\ quitCalled' => \A t \in Tasks : st'[t] \notin Live
    /\ NoDup(spawned')

C1_Amended == [][C1_Step]_vars

\* the test's case: two sleeping workers and exit(); both done, not cancelled,
\* and app.quit() called
C1_Witness ==
    /\ mainPc = "stopped"
    /\ quitCalled
    /\ cancel = "none"
    /\ Count({t \in Tasks : kind[t] = "sleep" /\ st[t] = "done"}) >= 2

\* ---- C2 -------------------------------------------------------------------
\* C2: requests are handed to nursery.start_soon in submission order: ids are
\* given in the order call_async accepted them, and the k-th request spawned
\* is always request k (none overtaken, none skipped).
C2_SpawnOrder == \A i \in DOMAIN spawned : spawned[i] = i

\* A then B submitted, both spawned
C2_Witness ==
    /\ Len(spawned) >= 2
    /\ st[1] # "queued"
    /\ st[2] = "started"

\* ---- C3 -------------------------------------------------------------------
\* the run is consuming the inbox
Consuming == mainPc \in {"start", "recv_wait", "got"}

\* a sender submitted after r that the current run will run
PendingSender(r) ==
    \E s \in Tasks :
        /\ s > r
        /\ kind[s] = "send"
        /\ st[s] = "started" \/ (st[s] = "queued" /\ Consuming)

C4_Step ==
    /\ Len(inbox') <= Capacity
    /\ (\E k \in Kinds : call_async(k)) =>
          /\ (lastCall'.res = "WouldBlock") <=> (Len(inbox) = Capacity)
          /\ lastCall'.res \in {"ok", "WouldBlock"}
          /\ lastCall'.res = "WouldBlock" => UNCHANGED <<inbox, mainItem, nsub, st, kind>>
          /\ lastCall'.res = "ok" =>
                /\ nsub' = nsub + 1
                /\ \/ inbox' = Append(inbox, nsub') /\ mainItem' = mainItem
                   \/ mainPc = "recv_wait" /\ mainItem' = nsub' /\ inbox' = inbox

C4_Backpressure == [][C4_Step]_vars

\* Capacity requests accepted before any run drained them, and the next
\* call_async got WouldBlock
C4_Witness ==
    /\ mainPc = "none"
    /\ nsub = Capacity
    /\ Len(inbox) = Capacity
    /\ EXIT \notin SeqSet(inbox)
    /\ lastCall = [op |-> "call_async", res |-> "WouldBlock"]

\* ---- C5 -------------------------------------------------------------------
\* C5: once _main has exited with all children finished and _done has run,
\* app.quit() has been called, however the children finished.
C5_QuitAfterExit == mainPc = "stopped" => quitCalled

\* ---- C6 -------------------------------------------------------------------
\* C6: a run whose scope was cancelled by lastWindowClosed while _main was in
\* its loop ends with app.quit() called and no error reported.
C6_CloseEndsRun == (mainPc = "stopped" /\ cancel = "close") => (quitCalled /\ ~nurseryErr)

\* ---- C7 -------------------------------------------------------------------
\* C7 as stated: after the runner has consumed the sentinel, every suspended
\* task has been cancelled, so none is still parked while the nursery joins.
C7_Original == mainPc = "joining" => \A t \in Tasks : st[t] \notin Parked

\* C7, amended: exit() cancels nothing.  Leaving the loop on the sentinel
\* leaves every task as it is; while the nursery joins with its scope not
\* cancelled a parked task stays parked until its own wake-up; and the join
\* completes only when no child is live.
C7_Step ==
    /\ (mainPc = "got" /\ mainItem = EXIT /\ mainPc' = "joining") =>
          (st' = st /\ cancel' = cancel)
    /\ (mainPc = "joining" /\ cancel' = "none") =>
          \A t \in Tasks : st[t] \in Parked => st'[t] \in Parked \cup {"ready"}
    /\ mainPc' = "exited" => \A t \in Tasks : st'[t] \notin Live

C7_Amended == [][C7_Step]_vars

\* the sentinel was consumed while a task was in the middle of its sleep: the
\* task is still sleeping, not cancelled
C7_Witness ==
    /\ mainPc = "joining"
    /\ cancel = "none"
    /\ \E t \in Tasks : kind[t] = "sleep" /\ st[t] = "sleeping"

\* ---- C8 -------------------------------------------------------------------
\* C8 as stated: a call_async made after shutdown has begun fails with an
\* error other than WouldBlock and enqueues nothing.
C8_Original ==
    [][((\E k \in Kinds : call_async(k)) /\ ShutdownBegun) =>
          (lastCall'.res = "LateSubmission" /\ inbox' = inbox)]_vars

\* C8, amended: a call_async made after shutdown has begun is treated like any
\* other: it is appended to the inbox without an error when the buffer has
\* room and raises WouldBlock when it is full; the run that is shutting down
\* takes nothing more from the inbox, so the request stays there.
C8_Step ==
    ShutdownBegun =>
        /\ Len(inbox') >= Len(inbox)
        /\ (\E k \in Kinds : call_async(k)) =>
              IF Len(inbox) < Capacity
              THEN /\ lastCall'.res = "ok"
                   /\ inbox' = Append(inbox, nsub + 1)
                   /\ st'[nsub + 1] \in {"queued", "held"}
              ELSE /\ lastCall'.res = "WouldBlock"
                   /\ inbox' = inbox

C8_Amended == [][C8_Step]_vars

\* a request accepted, without error, after the run stopped on its sentinel:
\* it sits in the inbox
C8_Witness ==
    /\ mainPc = "stopped"
    /\ quitCalled
    /\ cancel = "none"
    /\ lastCall = [op |-> "call_async", res |-> "ok"]
    /\ \E t \in Tasks : st[t] = "queued" /\ t \in SeqSet(inbox)

\* ---- C9 -------------------------------------------------------------------
\* C9: exit() called again while the sentinel of the previous exit() is still
\* the last item of the inbox leaves the inbox as it is.
C9_ExitIdempotent ==
    [][(exit /\ inbox # <<>> /\ inbox[Len(inbox)] = EXIT) => inbox' = inbox]_vars

\* ---- C10 ------------------------------------------------------------------
\* C10: exit() never ends in WouldBlock: it always enqueues the sentinel.
C10_ExitNeverOverflows == lastCall.op = "exit" => lastCall.res = "ok"

\* ---- C11 ------------------------------------------------------------------
InInbox(t) == Cardinality({i \in DOMAIN inbox : inbox[i] = t})
InHand(t) == IF mainPc = "got" /\ mainItem = t THEN 1 ELSE 0
Spawns(t) == Cardinality({i \in DOMAIN spawned : spawned[i] = t})

\* C11: a call_async made on a producer thread ends accepted or in WouldBlock;
\* an accepted request is in the inbox, in _main's hand or spawned, exactly
\* once; and the requests of one producer are spawned in the order it
\* submitted them.
C11_ThreadSafe ==
    /\ \A t \in Tasks :
          /\ tres[t] \in {"none", "ok", "WouldBlock"}
          /\ tres[t] = "ok" => InInbox(t) + InHand(t) + Spawns(t) = 1
    /\ \A i, j \in DOMAIN spawned :
          (i < j /\ owner[spawned[i]] = owner[spawned[j]]) => spawned[i] < spawned[j]

\* ---- C12 ------------------------------------------------------------------
\* C12: app.quit() has been called only if _main has exited (the run has
\* stopped) and no spawned child is still running or suspended.
C12_QuitOnlyAfterJoin ==
    quitCalled => (mainPc = "stopped" /\ \A t \in Tasks : st[t] \notin Live)

\* app.quit() called in a run that spawned a task, which has finished
C12_Witness ==
    /\ quitCalled
    /\ \E i \in DOMAIN spawned : st[spawned[i]] \in Finished

\* ---- C13 ------------------------------------------------------------------
\* C13: fail-fast.  The step in which a task body raises puts the exception
\* into the nursery and cancels its scope: no sibling stays parked and _main
\* is thrown out of receive(); the exception stays the run's outcome until
\* a new run() starts, and _done, given that outcome, re-raises it instead of
\* calling app.quit().  No step ends a raising task any other way.
C13_Step ==
    /\ \A t \in Tasks :
          (st[t] # "failed" /\ st'[t] = "failed") =>
              /\ nurseryErr'
              /\ cancel' # "none"
              /\ \A u \in Tasks : st'[u] \notin Parked
              /\ mainPc' # "recv_wait"
    /\ (nurseryErr /\ ~nurseryErr') => (mainPc = "stopped" /\ mainPc' = "start")
    /\ (mainPc = "exited" /\ mainPc' = "stopped" /\ nurseryErr) => ~quitCalled'

C13_FailFast == [][C13_Step]_vars

\* a task raised while a sibling was suspended: the sibling ended cancelled
\* and the run ended with the error as its outcome
C13_Witness ==
    /\ mainPc = "stopped"
    /\ nurseryErr
    /\ cancel = "failure"
    /\ \E t, u \in Tasks : st[t] = "failed" /\ st[u] = "cancelled"

\* ---- C14 ------------------------------------------------------------------
\* C14: once the nursery's scope is cancelled, nursery.start_soon is not
\* executed any more in that run.
C14_NoSpawnAfterCancel == [][cancel_called => spawned' = spawned]_vars

\* ---- C15 ------------------------------------------------------------------
\* C15: a request accepted after the scope of a run was cancelled is never
\* spawned, by that run or by a later one.
C15_LateDiscarded == [][\A t \in late : st'[t] # "started"]_vars

\* ---- C20 ------------------------------------------------------------------
IsPrefix(a, b) == Len(a) <= Len(b) /\ \A i \in DOMAIN a : a[i] = b[i]

\* C20: from the step that hands _main the sentinel until the next run()
\* starts, nothing is taken out of the inbox and nothing is spawned: what is
\* enqueued behind the sentinel stays in the inbox in its order.  Whenever an
\* item is taken out it is the head of the inbox, so the next run() begins
\* with the oldest item left behind.
C20_Step ==
    /\ (mainPc \in {"joining", "exited", "stopped"} \/ (mainPc = "got" /\ mainItem = EXIT))
          => (IsPrefix(inbox, inbox') /\ spawned' = spawned)
    /\ ~IsPrefix(inbox, inbox') =>
          /\ inbox # <<>>
          /\ inbox' = Tail(inbox)
          /\ mainPc \in {"start", "got"}
          /\ mainPc' = "got"
          /\ mainItem' = Head(inbox)

C20_SentinelEndsConsumption == [][C20_Step]_vars

\* a later run() holds a request that was enqueued behind a sentinel, with a
\* further sentinel still in the inbox
C20_Witness ==
    /\ mainPc = "got"
    /\ mainItem \in Tasks
    /\ st[mainItem] = "held"
    /\ EXIT \in SeqSet(inbox)

\* ---- C16 ------------------------------------------------------------------
Executions(c) == Cardinality({i \in DOMAIN execLog : execLog[i].cb = c})
Pending(c) == Cardinality({i \in DOMAIN ready : ready[i] = c})

\* C16: callbacks run in the order they were queued (their ids), whatever
\* events of the host's own are handled between them.
C16_BridgeFifo ==
    \A i, j \in DOMAIN execLog :
        (i < j /\ execLog[i].cb \in Callbacks /\ execLog[j].cb \in Callbacks)
            => execLog[i].cb < execLog[j].cb

\* callbacks 1 and 2 ran in that order with a native event handled between
\* them
C16_Witness ==
    \E i, j, k \in DOMAIN execLog :
        /\ i < j /\ j < k
        /\ execLog[i].cb = 1
        /\ execLog[j].cb = NATIVE
        /\ execLog[k].cb = 2

\* ---- C17 ------------------------------------------------------------------
\* C17 as stated: once the loop has stopped, every callback that was queued
\* while it was running has been executed exactly once.
C17_Original ==
    loopState = "closed" =>
        \A c \in Callbacks : cbAt[c] = "running" => Executions(c) = 1

\* C17, amended: a callback is never executed twice, nor queued twice, nor
\* both; a callback that was queued and is neither waiting nor executed was
\* dropped by the loop closing; one queued after that is never executed.
C17_Amended ==
    \A c \in Callbacks :
        /\ Executions(c) + Pending(c) <= 1
        /\ c > nposted => Executions(c) + Pending(c) = 0
        /\ (c <= nposted /\ Executions(c) + Pending(c) = 0) =>
              (loopState = "closed" /\ cbAt[c] # "closed")
        /\ cbAt[c] = "closed" => Executions(c) = 0

\* both threads queued callbacks while the loop was running; the loop ran one
\* exactly once and stopped before the other, which was dropped
C17_Witness ==
    /\ loopState = "closed"
    /\ postRes["host"] = "ok" /\ postRes["io"] = "ok"
    /\ \E c, d \in Callbacks :
          /\ cbAt[c] = "running" /\ Executions(c) = 1
          /\ cbAt[d] = "running" /\ Executions(d) = 0 /\ Pending(d) = 0

\* ---- C18 ------------------------------------------------------------------
\* C18: every callback (every tick of the guest run) and every native event
\* is executed by the host thread, and a step of a thread inside _schedule
\* executes nothing: it only queues.
C18_Step ==
    /\ \A i \in DOMAIN execLog' : execLog'[i].thread = "host"
    /\ (postPc' # postPc \/ postRes' # postRes) => execLog' = execLog

C19_ScheduleAfterStop == \A th \in PostThreads : postRes[th] # "RuntimeError"
====
